---- MODULE Spec2Model ----
(***************************************************************************)
(* Vault link-graph analysis of src/analyzer.py: discovery of the notes    *)
(* (fetch_all_notes), construction of the directed link graph              *)
(* (build_note_graph), classification and mention matching                 *)
(* (analyze_graph) and the orchestration (run_analysis_process); and the   *)
(* same analysis as AnalysisEngine of src/core/analysis/engine.py does it. *)
(*                                                                         *)
(* Python strings are sequences of one-character strings, so that          *)
(* splitext, basename, lower, split, the wikilink regular expression and   *)
(* substring search are computed as the code computes them.                *)
(***************************************************************************)
EXTENDS Integers, Sequences, FiniteSets, TLC

(***************************************************************************)
(* Bounds of the model.                                                    *)
(***************************************************************************)
\* total number of text pieces over all fetched notes of one run
MaxPieces == 2
\* hub_threshold is drawn from 1..MaxHubThreshold
MaxHubThreshold == 2
\* min_word_count is drawn from 0..MaxMinWordCount
MaxMinWordCount == 3

(***************************************************************************)
(* Characters and strings.                                                 *)
(***************************************************************************)
\* code point of the characters that occur in the model (str comparison)
Ord(c) ==
    CASE c = " " -> 32
      [] c = "." -> 46
      [] c = "/" -> 47
      [] c = "A" -> 65
      [] c = "B" -> 66
      [] c = "X" -> 88
      [] c = "Y" -> 89
      [] c = "Z" -> 90
      [] c = "[" -> 91
      [] c = "]" -> 93
      [] c = "a" -> 97
      [] c = "b" -> 98
      [] c = "d" -> 100
      [] c = "m" -> 109
      [] c = "x" -> 120
      [] c = "y" -> 121
      [] c = "z" -> 122
      [] c = "|" -> 124

\* str.lower() on one character
LowerChar(c) ==
    CASE c = "A" -> "a"
      [] c = "B" -> "b"
      [] c = "X" -> "x"
      [] c = "Y" -> "y"
      [] c = "Z" -> "z"
      [] OTHER -> c

\* str.lower()
Lower(s) == [k \in 1..Len(s) |-> LowerChar(s[k])]

\* s[from:] with a 1-based first index
Drop(s, from) == SubSeq(s, from, Len(s))

\* s.rfind(c), 1-based, 0 when c does not occur
RFind(s, c) ==
    LET hits == {k \in 1..Len(s) : s[k] = c}
    IN  IF hits = {} THEN 0 ELSE CHOOSE k \in hits : \A h \in hits : h <= k

\* s.endswith(suffix)
EndsWith(s, suffix) ==
    /\ Len(s) >= Len(suffix)
    /\ SubSeq(s, Len(s) - Len(suffix) + 1, Len(s)) = suffix

\* s.rstrip(c)
RStrip(s, c) ==
    LET keep == {k \in 1..Len(s) : s[k] # c}
    IN  IF keep = {} THEN <<>>
        ELSE SubSeq(s, 1, CHOOSE k \in keep : \A h \in keep : h <= k)

\* pat in s
Contains(s, pat) ==
    \E k \in 1..(Len(s) - Len(pat) + 1) : SubSeq(s, k, k + Len(pat) - 1) = pat

\* a < b for Python strings (code point order, a proper prefix is smaller)
RECURSIVE LexLess(_, _)
LexLess(a, b) ==
    IF b = <<>> THEN FALSE
    ELSE IF a = <<>> THEN TRUE
    ELSE IF a[1] # b[1] THEN Ord(a[1]) < Ord(b[1])
    ELSE LexLess(Tail(a), Tail(b))

\* sorted(list(S)) for a set of strings
RECURSIVE Sorted(_)
Sorted(S) ==
    IF S = {} THEN <<>>
    ELSE LET least == CHOOSE a \in S : \A b \in S \ {a} : LexLess(a, b)
         IN  <<least>> \o Sorted(S \ {least})

\* the elements of a sequence
Range(seq) == {seq[k] : k \in 1..Len(seq)}

\* os.path.basename(p)
Basename(p) == Drop(p, RFind(p, "/") + 1)

\* os.path.splitext(p)[0]: the extension starts at the last dot of the last
\* path segment, unless only dots precede it in that segment
SplitextRoot(p) ==
    LET sepIndex == RFind(p, "/")
        dotIndex == RFind(p, ".")
    IN  IF /\ dotIndex > sepIndex
           /\ \E k \in (sepIndex + 1)..(dotIndex - 1) : p[k] # "."
        THEN SubSeq(p, 1, dotIndex - 1)
        ELSE p

\* os.path.splitext(os.path.basename(p))[0]
Title(p) == SplitextRoot(Basename(p))

\* os.path.join(current_dir, item).replace("\\", "/"); no string of the model
\* holds a backslash
JoinPath(current_dir, item) ==
    IF item # <<>> /\ item[1] = "/" THEN item
    ELSE IF current_dir = <<>> THEN item
    ELSE IF current_dir[Len(current_dir)] = "/" THEN current_dir \o item
    ELSE current_dir \o <<"/">> \o item

\* len(s.split()): the number of maximal runs of non-blank characters
WordCount(s) ==
    Cardinality({k \in 1..Len(s) : s[k] # " " /\ (k = 1 \/ s[k - 1] = " ")})

\* WIKILINK_RE.findall(s) scanned from position i: "[[" followed by one or
\* more characters other than "|" and "]", greedy; the scan resumes where the
\* match ended
RECURSIVE FindallFrom(_, _)
FindallFrom(s, i) ==
    IF i + 2 > Len(s) THEN <<>>
    ELSE IF s[i] = "[" /\ s[i + 1] = "[" /\ s[i + 2] \notin {"|", "]"}
    THEN LET stops == {k \in (i + 3)..Len(s) : s[k] \in {"|", "]"}}
             j == IF stops = {} THEN Len(s) + 1
                  ELSE CHOOSE k \in stops : \A h \in stops : k <= h
         IN  <<SubSeq(s, i + 2, j - 1)>> \o FindallFrom(s, j)
    ELSE FindallFrom(s, i + 1)

WikilinkFindall(s) == FindallFrom(s, 1)

\* the first position from `from` on where s has a character of stops, 0 when
\* there is none
FirstOf(s, from, stops) ==
    LET hits == {k \in from..Len(s) : s[k] \in stops}
    IN  IF hits = {} THEN 0 ELSE CHOOSE k \in hits : \A h \in hits : k <= h

\* s.strip(); the blank is the only whitespace of the model
Strip(s) ==
    LET keep == {k \in 1..Len(s) : s[k] # " "}
    IN  IF keep = {} THEN <<>>
        ELSE SubSeq(s, CHOOSE k \in keep : \A h \in keep : k <= h,
                       CHOOSE k \in keep : \A h \in keep : h <= k)

\* re.findall(r'\[\[([^|\]]+)(?:\|[^\]]+)?\]\]', s) scanned from position at:
\* "[[", a non-empty target without "|" and "]", optionally "|" and a
\* non-empty alias without "]", then "]]"
RECURSIVE LinkPatternFindallFrom(_, _)
LinkPatternFindallFrom(s, at) ==
    IF at + 1 > Len(s) THEN <<>>
    ELSE IF s[at] = "[" /\ s[at + 1] = "["
    THEN LET targetEnd == FirstOf(s, at + 2, {"|", "]"})
             aliasEnd == IF targetEnd # 0 /\ s[targetEnd] = "|"
                         THEN FirstOf(s, targetEnd + 1, {"]"})
                         ELSE targetEnd
             closed == /\ targetEnd > at + 2
                       /\ aliasEnd # 0
                       /\ s[targetEnd] = "|" => aliasEnd > targetEnd + 1
                       /\ aliasEnd + 1 <= Len(s)
                       /\ s[aliasEnd] = "]"
                       /\ s[aliasEnd + 1] = "]"
         IN  IF closed
             THEN <<SubSeq(s, at + 2, targetEnd - 1)>>
                      \o LinkPatternFindallFrom(s, aliasEnd + 2)
             ELSE LinkPatternFindallFrom(s, at + 1)
    ELSE LinkPatternFindallFrom(s, at + 1)

\* AnalysisEngine._extract_links_from_content: the targets stripped, without
\* the empty ones and those that start with "#"
RECURSIVE CleanLinks(_)
CleanLinks(links) ==
    IF links = <<>> THEN <<>>
    ELSE LET link == Strip(Head(links))
         IN  IF link # <<>> /\ link[1] # "#"
             THEN <<link>> \o CleanLinks(Tail(links))
             ELSE CleanLinks(Tail(links))

ExtractLinksFromContent(s) == CleanLinks(LinkPatternFindallFrom(s, 1))

(***************************************************************************)
(* The content source: directory listings and note texts.                  *)
(***************************************************************************)
MD == <<".", "m", "d">>
Root == <<>>
DirA == <<"A">>
DirB == <<"B">>
DirAB == <<"A", "/", "B">>
NoteX == <<"X">> \o MD
NoteLowerX == <<"x">> \o MD
NoteY == <<"Y">> \o MD
PlainFile == <<"Z">>
EntryDirA == <<"A", "/">>
EntryDirB == <<"B", "/">>

\* a vault maps each directory to the "files" list of its listing
\* X.md and A/X.md: the token X is an exact path and an ambiguous basename
VaultExact == (Root :> <<EntryDirA, NoteX, PlainFile>>) @@ (DirA :> <<NoteX>>)
\* A/X.md and B/X.md: the token X is only a basename, held by two notes
VaultAmbiguous ==
    (Root :> <<EntryDirB, EntryDirA>>) @@ (DirA :> <<NoteX>>) @@ (DirB :> <<NoteX>>)
\* X.md and x.md: two titles that differ only in letter case
VaultCase == (Root :> <<NoteLowerX, NoteX>>)
\* Y.md and A/X.md, the directory A listed twice
VaultNested ==
    (Root :> <<EntryDirA, NoteY, EntryDirA>>) @@ (DirA :> <<NoteX>>)
\* no markdown file at all
VaultEmpty == (Root :> <<PlainFile>>)
\* A/Y.md and A/B/X.md: a directory inside a directory
VaultDeep ==
    (Root :> <<EntryDirA>>) @@ (DirA :> <<EntryDirB, NoteY>>)
        @@ (DirAB :> <<NoteX>>)

Vaults ==
    {VaultExact, VaultAmbiguous, VaultCase, VaultNested, VaultEmpty, VaultDeep}

\* the pieces a note text is made of
PieceLinkX == <<"[", "[", "X", "]", "]">>
PieceLinkPath == <<"[", "[", "A", "/", "X", "]", "]">>
PieceLinkFile == <<"[", "[", "X", ".", "m", "d", "]", "]">>
PieceLinkAlias == <<"[", "[", "x", "|", "d", "]", "]">>
PieceLinkOpen == <<"[", "[", "Z">>
PieceMention == <<"a", " ", "x", " ">>
Pieces ==
    {PieceLinkX, PieceLinkPath, PieceLinkFile, PieceLinkAlias, PieceLinkOpen,
     PieceMention}

\* the texts of at most n pieces
RECURSIVE TextsUpTo(_)
TextsUpTo(n) ==
    IF n = 0 THEN {<<>>}
    ELSE LET shorter == TextsUpTo(n - 1)
         IN  shorter \cup {t \o <<p>> : t \in shorter, p \in Pieces}

\* the text a sequence of pieces stands for
RECURSIVE Flatten(_)
Flatten(pieces) ==
    IF pieces = <<>> THEN <<>> ELSE Head(pieces) \o Flatten(Tail(pieces))

(***************************************************************************)
(* State.                                                                  *)
(***************************************************************************)
VARIABLES
    pc,                     \* position of run_analysis_process
    vault,                  \* the content source of this run
    dirs_to_scan,           \* fetch_all_notes: queue of directories
    scanned_dirs,           \* fetch_all_notes: directories already visited
    all_markdown_files,     \* fetch_all_notes: notes found so far
    failed_dirs,            \* directories whose listing raised (error log)
    markdown_files,         \* the sorted list fetch_all_notes returns
    i,                      \* notes handled by the running loop
    node_type,              \* graph: node -> its "type" attribute
    content,                \* graph: note -> the pieces of its "content"
    edges,                  \* graph: set of <<source, target>>
    full_path_map,          \* build_note_graph: path without extension -> path
    basename_map,           \* build_note_graph: basename -> list of paths
    failed_notes,           \* notes whose fetch raised (warning log)
    params,                 \* the arguments of analyze_graph
    lower_to_canonical_map, \* analyze_graph: lowercase title -> title
    analysis,               \* <<the record analyze_graph returned>>, or <<>>
    note_links,             \* AnalysisEngine: note -> list of its links
    note_backlinks          \* AnalysisEngine: note -> list of linking notes

vars ==
    <<pc, vault, dirs_to_scan, scanned_dirs, all_markdown_files, failed_dirs,
      markdown_files, i, node_type, content, edges, full_path_map,
      basename_map, failed_notes, params, lower_to_canonical_map, analysis,
      note_links, note_backlinks>>

discoveryVars ==
    <<dirs_to_scan, scanned_dirs, all_markdown_files, failed_dirs>>
graphVars == <<node_type, content, edges, failed_notes>>
indexVars == <<full_path_map, basename_map>>
analysisVars == <<params, lower_to_canonical_map, analysis>>
engineVars == <<note_links, note_backlinks>>

\* a dict without keys
EmptyMap == <<>>
\* Python's None where a string is expected; falsy like the empty string
None == <<>>

\* d[key] = value
MapSet(d, key, value) ==
    [k \in DOMAIN d \cup {key} |-> IF k = key THEN value ELSE d[k]]

Init ==
    /\ pc = "fetch_all_notes"
    /\ vault \in Vaults
    /\ dirs_to_scan = <<Root>>
    /\ scanned_dirs = {}
    /\ all_markdown_files = {}
    /\ failed_dirs = {}
    /\ markdown_files = <<>>
    /\ i = 0
    /\ node_type = EmptyMap
    /\ content = EmptyMap
    /\ edges = {}
    /\ full_path_map = EmptyMap
    /\ basename_map = EmptyMap
    /\ failed_notes = {}
    /\ params = EmptyMap
    /\ lower_to_canonical_map = EmptyMap
    /\ analysis = <<>>
    /\ note_links = EmptyMap
    /\ note_backlinks = EmptyMap

(***************************************************************************)
(* fetch_all_notes.                                                        *)
(***************************************************************************)
\* ScanItems adding a markdown file under its bare name instead of its path
RECURSIVE ScanItems_BareFileName(_, _)
ScanItems_BareFileName(current_dir, items) ==
    IF items = <<>> THEN [dirs |-> <<>>, files |-> {}]
    ELSE LET full_item_path == JoinPath(current_dir, Head(items))
             rest == ScanItems_BareFileName(current_dir, Tail(items))
         IN  IF EndsWith(full_item_path, <<"/">>)
             THEN [dirs |-> <<RStrip(full_item_path, "/")>> \o rest.dirs,
                   files |-> rest.files]
             ELSE IF EndsWith(full_item_path, MD)
             THEN [dirs |-> rest.dirs,
                   files |-> {Head(items)} \cup rest.files]
             ELSE rest

\* the loop over the items of one listing: the directories to enqueue, in
\* listing order, and the markdown files found
RECURSIVE ScanItems(_, _)
ScanItems(current_dir, items) ==
    IF items = <<>> THEN [dirs |-> <<>>, files |-> {}]
    ELSE LET full_item_path == JoinPath(current_dir, Head(items))
             rest == ScanItems(current_dir, Tail(items))
         IN  IF EndsWith(full_item_path, <<"/">>)
             THEN [dirs |-> <<RStrip(full_item_path, "/")>> \o rest.dirs,
                   files |-> rest.files]
             ELSE IF EndsWith(full_item_path, MD)
             THEN [dirs |-> rest.dirs,
                   files |-> {full_item_path} \cup rest.files]
             ELSE rest

\* a queued directory that was scanned before is dropped
SkipScannedDir ==
    /\ pc = "fetch_all_notes"
    /\ dirs_to_scan # <<>>
    /\ Head(dirs_to_scan) \in scanned_dirs
    /\ dirs_to_scan' = Tail(dirs_to_scan)
    /\ UNCHANGED <<pc, vault, scanned_dirs, all_markdown_files, failed_dirs,
                   markdown_files, i>>
    /\ UNCHANGED <<graphVars, indexVars, analysisVars>>
    /\ UNCHANGED engineVars

\* the listing of the next directory succeeds
ListDir ==
    /\ pc = "fetch_all_notes"
    /\ dirs_to_scan # <<>>
    /\ Head(dirs_to_scan) \notin scanned_dirs
    /\ Head(dirs_to_scan) \in DOMAIN vault
    /\ LET current_dir == Head(dirs_to_scan)
           found == ScanItems(current_dir, vault[current_dir])
       IN  /\ scanned_dirs' = scanned_dirs \cup {current_dir}
           /\ dirs_to_scan' = Tail(dirs_to_scan) \o found.dirs
           /\ all_markdown_files' = all_markdown_files \cup found.files
    /\ UNCHANGED <<pc, vault, failed_dirs, markdown_files, i>>
    /\ UNCHANGED <<graphVars, indexVars, analysisVars>>
    /\ UNCHANGED engineVars

\* ListDirFails leaving the traversal loop instead of continuing it
ListDirFails_StopsTraversal ==
    /\ pc = "fetch_all_notes"
    /\ dirs_to_scan # <<>>
    /\ Head(dirs_to_scan) \notin scanned_dirs
    /\ scanned_dirs' = scanned_dirs \cup {Head(dirs_to_scan)}
    /\ failed_dirs' = failed_dirs \cup {Head(dirs_to_scan)}
    /\ dirs_to_scan' = <<>>
    /\ UNCHANGED <<pc, vault, all_markdown_files, markdown_files, i>>
    /\ UNCHANGED <<graphVars, indexVars, analysisVars>>
    /\ UNCHANGED engineVars

\* ListDirFails with the directory marked as scanned only after a listing
\* that succeeded
ListDirFails_NotMarked ==
    /\ pc = "fetch_all_notes"
    /\ dirs_to_scan # <<>>
    /\ Head(dirs_to_scan) \notin scanned_dirs
    /\ failed_dirs' = failed_dirs \cup {Head(dirs_to_scan)}
    /\ dirs_to_scan' = Tail(dirs_to_scan)
    /\ UNCHANGED <<pc, vault, scanned_dirs, all_markdown_files,
                   markdown_files, i>>
    /\ UNCHANGED <<graphVars, indexVars, analysisVars>>
    /\ UNCHANGED engineVars

\* the listing of the next directory raises a RequestException
ListDirFails ==
    /\ pc = "fetch_all_notes"
    /\ dirs_to_scan # <<>>
    /\ Head(dirs_to_scan) \notin scanned_dirs
    /\ scanned_dirs' = scanned_dirs \cup {Head(dirs_to_scan)}
    /\ failed_dirs' = failed_dirs \cup {Head(dirs_to_scan)}
    /\ dirs_to_scan' = Tail(dirs_to_scan)
    /\ UNCHANGED <<pc, vault, all_markdown_files, markdown_files, i>>
    /\ UNCHANGED <<graphVars, indexVars, analysisVars>>
    /\ UNCHANGED engineVars

\* ExitNoNotes without the sys.exit(0): the empty list is returned
ExitNoNotes_ReturnsEmptyList ==
    /\ pc = "fetch_all_notes"
    /\ dirs_to_scan = <<>>
    /\ all_markdown_files = {}
    /\ pc' = "index"
    /\ UNCHANGED <<vault, discoveryVars, markdown_files, i>>
    /\ UNCHANGED <<graphVars, indexVars, analysisVars>>
    /\ UNCHANGED engineVars

\* the traversal found no note: sys.exit(0)
ExitNoNotes ==
    /\ pc = "fetch_all_notes"
    /\ dirs_to_scan = <<>>
    /\ all_markdown_files = {}
    /\ pc' = "exit_0"
    /\ UNCHANGED <<vault, discoveryVars, markdown_files, i>>
    /\ UNCHANGED <<graphVars, indexVars, analysisVars>>
    /\ UNCHANGED engineVars

\* the traversal found notes: the sorted list is returned
ReturnNotes ==
    /\ pc = "fetch_all_notes"
    /\ dirs_to_scan = <<>>
    /\ all_markdown_files # {}
    /\ markdown_files' = Sorted(all_markdown_files)
    /\ pc' = "index"
    /\ UNCHANGED <<vault, discoveryVars, i>>
    /\ UNCHANGED <<graphVars, indexVars, analysisVars>>
    /\ UNCHANGED engineVars

(***************************************************************************)
(* build_note_graph.                                                       *)
(***************************************************************************)
\* first loop, one note: the note node and its two index entries
AddNote ==
    /\ pc = "index"
    /\ i < Len(markdown_files)
    /\ LET note_path == markdown_files[i + 1]
           link_path == SplitextRoot(note_path)
           basename == Title(note_path)
           paths == IF basename \in DOMAIN basename_map
                    THEN basename_map[basename] ELSE <<>>
       IN  /\ node_type' = MapSet(node_type, note_path, "note")
           /\ full_path_map' = MapSet(full_path_map, link_path, note_path)
           /\ basename_map' = MapSet(basename_map, basename, Append(paths, note_path))
    /\ i' = i + 1
    /\ UNCHANGED <<pc, vault, discoveryVars, markdown_files, content, edges,
                   failed_notes, analysisVars>>
    /\ UNCHANGED engineVars

\* IndexDone with the first loop left one note too early
IndexDone_OneNoteEarly ==
    /\ pc = "index"
    /\ i >= Len(markdown_files) - 1
    /\ pc' = "build"
    /\ i' = 0
    /\ UNCHANGED <<vault, discoveryVars, markdown_files, graphVars, indexVars,
                   analysisVars>>
    /\ UNCHANGED engineVars

\* the first loop is over, the second one starts
IndexDone ==
    /\ pc = "index"
    /\ i = Len(markdown_files)
    /\ pc' = "build"
    /\ i' = 0
    /\ UNCHANGED <<vault, discoveryVars, markdown_files, graphVars, indexVars,
                   analysisVars>>
    /\ UNCHANGED engineVars

\* ResolveLink with the two lookups in the opposite order
ResolveLink_BasenameFirst(link_target, fpm, bm) ==
    IF link_target \in DOMAIN bm THEN bm[link_target][1]
    ELSE IF link_target \in DOMAIN fpm THEN fpm[link_target]
    ELSE None

\* ResolveLink taking the last note of a basename instead of the first
ResolveLink_LastEntry(link_target, fpm, bm) ==
    IF link_target \in DOMAIN fpm THEN fpm[link_target]
    ELSE IF link_target \in DOMAIN bm
    THEN bm[link_target][Len(bm[link_target])]
    ELSE None

\* ResolveLink taking, of the notes of a basename, the first one whose text
\* was fetched already
ResolveLink_PrefersFetched(link_target, fpm, bm) ==
    IF link_target \in DOMAIN fpm THEN fpm[link_target]
    ELSE IF link_target \in DOMAIN bm
    THEN LET paths == bm[link_target]
             fetched == {k \in 1..Len(paths) : paths[k] \in DOMAIN content}
         IN  IF fetched = {} THEN paths[1]
             ELSE paths[CHOOSE k \in fetched : \A h \in fetched : k <= h]
    ELSE None

\* ResolveLink with both lookups made without regard to letter case
ResolveLink_IgnoresCase(link_target, fpm, bm) ==
    LET paths == {k \in DOMAIN fpm : Lower(k) = Lower(link_target)}
        names == {k \in DOMAIN bm : Lower(k) = Lower(link_target)}
    IN  IF paths # {} THEN fpm[CHOOSE k \in paths : TRUE]
        ELSE IF names # {} THEN bm[CHOOSE k \in names : TRUE][1]
        ELSE None

\* the target_path a link target resolves to, None when it resolves to no note
ResolveLink(link_target, fpm, bm) ==
    IF link_target \in DOMAIN fpm THEN fpm[link_target]
    ELSE IF link_target \in DOMAIN bm THEN bm[link_target][1]
    ELSE None

\* AddLink with a link of a note to itself dropped
AddLink_SkipsSelfLinks(g, note_path, link_target, fpm, bm) ==
    LET target_path == ResolveLink(link_target, fpm, bm)
    IN  IF target_path = note_path THEN g
        ELSE IF target_path # None
        THEN [type |-> g.type, edges |-> g.edges \cup {<<note_path, target_path>>}]
        ELSE [type |-> IF link_target \in DOMAIN g.type THEN g.type
                       ELSE MapSet(g.type, link_target, "stub"),
              edges |-> g.edges \cup {<<note_path, link_target>>}]

\* AddLink without the graph.has_node test: add_node on an existing node
\* overwrites its type attribute
AddLink_NoHasNodeTest(g, note_path, link_target, fpm, bm) ==
    LET target_path == ResolveLink(link_target, fpm, bm)
    IN  IF target_path # None
        THEN [type |-> g.type, edges |-> g.edges \cup {<<note_path, target_path>>}]
        ELSE [type |-> MapSet(g.type, link_target, "stub"),
              edges |-> g.edges \cup {<<note_path, link_target>>}]

\* one iteration of the loop over the link targets of note_path; g is the
\* graph as [type, edges].  graph.has_node is true of note nodes as well
AddLink(g, note_path, link_target, fpm, bm) ==
    LET target_path == ResolveLink(link_target, fpm, bm)
    IN  IF target_path # None
        THEN [type |-> g.type, edges |-> g.edges \cup {<<note_path, target_path>>}]
        ELSE [type |-> IF link_target \in DOMAIN g.type THEN g.type
                       ELSE MapSet(g.type, link_target, "stub"),
              edges |-> g.edges \cup {<<note_path, link_target>>}]

\* the loop over the link targets of note_path, in the order extracted
RECURSIVE AddLinks(_, _, _, _, _)
AddLinks(g, note_path, link_targets, fpm, bm) ==
    IF link_targets = <<>> THEN g
    ELSE AddLinks(AddLink(g, note_path, Head(link_targets), fpm, bm),
                  note_path, Tail(link_targets), fpm, bm)

\* the text of a note that has a "content" attribute
Text(note_path) == Flatten(content[note_path])

\* the number of pieces fetched so far
RECURSIVE PiecesUsed(_)
PiecesUsed(notes) ==
    IF notes = {} THEN 0
    ELSE LET n == CHOOSE n \in notes : TRUE
         IN  Len(content[n]) + PiecesUsed(notes \ {n})

\* second loop, one note whose fetch succeeds: the content is stored and
\* every link target is resolved and linked
ProcessNote ==
    /\ pc = "build"
    /\ i < Len(markdown_files)
    /\ \E pieces \in TextsUpTo(MaxPieces - PiecesUsed(DOMAIN content)) :
          LET note_path == markdown_files[i + 1]
              g == AddLinks([type |-> node_type, edges |-> edges], note_path,
                            WikilinkFindall(Flatten(pieces)),
                            full_path_map, basename_map)
          IN  /\ content' = MapSet(content, note_path, pieces)
              /\ node_type' = g.type
              /\ edges' = g.edges
    /\ i' = i + 1
    /\ UNCHANGED <<pc, vault, discoveryVars, markdown_files, failed_notes,
                   indexVars, analysisVars>>
    /\ UNCHANGED engineVars

\* FetchFails with the same note tried again
FetchFails_Retries ==
    /\ pc = "build"
    /\ i < Len(markdown_files)
    /\ failed_notes' = failed_notes \cup {markdown_files[i + 1]}
    /\ UNCHANGED <<pc, vault, discoveryVars, markdown_files, i, node_type,
                   content, edges, indexVars, analysisVars>>
    /\ UNCHANGED engineVars

\* second loop, one note whose fetch raises a RequestException
FetchFails ==
    /\ pc = "build"
    /\ i < Len(markdown_files)
    /\ failed_notes' = failed_notes \cup {markdown_files[i + 1]}
    /\ i' = i + 1
    /\ UNCHANGED <<pc, vault, discoveryVars, markdown_files, node_type,
                   content, edges, indexVars, analysisVars>>
    /\ UNCHANGED engineVars

\* the graph is returned
BuildDone ==
    /\ pc = "build"
    /\ i = Len(markdown_files)
    /\ pc' = "analyze"
    /\ UNCHANGED <<vault, discoveryVars, markdown_files, i, graphVars,
                   indexVars, analysisVars>>
    /\ UNCHANGED engineVars

(***************************************************************************)
(* analyze_graph.  The graph is a networkx DiGraph: at most one edge per   *)
(* ordered pair of nodes, and a degree is a number of such edges.          *)
(***************************************************************************)
Notes == {n \in DOMAIN node_type : node_type[n] = "note"}
Stubs == {n \in DOMAIN node_type : node_type[n] = "stub"}

InDegree(n) == Cardinality({e \in edges : e[2] = n})
OutDegree(n) == Cardinality({e \in edges : e[1] = n})
Successors(n) == {e[2] : e \in {d \in edges : d[1] = n}}
Predecessors(n) == {e[1] : e \in {d \in edges : d[2] = n}}
NumberOfEdges == Cardinality(edges)

\* graph.nodes[n].get('content', '')
ContentOf(n) == IF n \in DOMAIN content THEN Text(n) ELSE <<>>

AllTitles == {Title(n) : n \in Notes}

\* the dicts {title.lower(): title for title in all_titles} can be: the set
\* is iterated in hash order, so of several titles with one lowercase form
\* any one can be the value that is kept
CanonicalMaps ==
    {m \in [{Lower(t) : t \in AllTitles} -> AllTitles] :
        \A k \in DOMAIN m : Lower(m[k]) = k}

\* the values the automaton yields on the lowercased content
FoundTitles(n, canon) ==
    {canon[k] : k \in {l \in DOMAIN canon : Contains(Lower(ContentOf(n)), l)}}

\* the titles of all successors of n, stubs included
ExistingLinkTitles(n) == {Title(target) : target \in Successors(n)}

\* PotentialNewLinks without the two subtractions
PotentialNewLinks_AllFound(n, canon) == FoundTitles(n, canon)

PotentialNewLinks(n, canon) ==
    (FoundTitles(n, canon) \ ExistingLinkTitles(n)) \ {Title(n)}

UntappedPotential(canon) ==
    [n \in {m \in Notes : ContentOf(m) # <<>> /\ PotentialNewLinks(m, canon) # {}}
        |-> Sorted(PotentialNewLinks(n, canon))]

\* DensityComputed without the test for a positive word count
DensityComputed_Unguarded(n, min_word_count) ==
    WordCount(ContentOf(n)) >= min_word_count

\* the notes for which out_degree / word_count is evaluated
DensityComputed(n, min_word_count) ==
    LET word_count == WordCount(ContentOf(n))
    IN  /\ word_count >= min_word_count
        /\ word_count > 0

\* IsLowDensity without the test against min_word_count
IsLowDensity_NoMinimum(n, density, min_word_count) ==
    LET word_count == WordCount(ContentOf(n))
    IN  /\ word_count > 0
        /\ OutDegree(n) * density[2] < density[1] * word_count

\* the threshold is the ratio density[1] / density[2]
IsLowDensity(n, density, min_word_count) ==
    LET word_count == WordCount(ContentOf(n))
    IN  /\ DensityComputed(n, min_word_count)
        /\ OutDegree(n) * density[2] < density[1] * word_count

\* the division raises ZeroDivisionError for some note
ZeroDivision(min_word_count) ==
    \E n \in Notes :
        DensityComputed(n, min_word_count) /\ WordCount(ContentOf(n)) = 0

\* link_density_threshold: 0.02, the default, and 1
DensityThresholds == {<<1, 50>>, <<1, 1>>}

\* AnalysisRecord with every node of the graph counted as a note
AnalysisRecord_TotalNotesCountsAllNodes(hub_threshold, density, min_word_count, canon) ==
    [total_notes |-> Cardinality(DOMAIN node_type),
     total_links |-> NumberOfEdges,
     orphans |-> Sorted({n \in Notes : InDegree(n) = 0}),
     hubs |-> Sorted({n \in Notes : OutDegree(n) >= hub_threshold}),
     dead_ends |-> Sorted({n \in Notes : OutDegree(n) = 0 /\ InDegree(n) > 0}),
     low_density_notes |->
         Sorted({n \in Notes : IsLowDensity(n, density, min_word_count)}),
     untapped_potential |-> UntappedPotential(canon),
     stubs |-> Sorted(Stubs),
     stub_sources |-> [stub_name \in Stubs |-> Sorted(Predecessors(stub_name))]]

\* AnalysisRecord with only the edges between notes counted as links
AnalysisRecord_TotalLinksBetweenNotes(hub_threshold, density, min_word_count, canon) ==
    [total_notes |-> Cardinality(Notes),
     total_links |-> Cardinality({e \in edges : e[2] \in Notes}),
     orphans |-> Sorted({n \in Notes : InDegree(n) = 0}),
     hubs |-> Sorted({n \in Notes : OutDegree(n) >= hub_threshold}),
     dead_ends |-> Sorted({n \in Notes : OutDegree(n) = 0 /\ InDegree(n) > 0}),
     low_density_notes |->
         Sorted({n \in Notes : IsLowDensity(n, density, min_word_count)}),
     untapped_potential |-> UntappedPotential(canon),
     stubs |-> Sorted(Stubs),
     stub_sources |-> [stub_name \in Stubs |-> Sorted(Predecessors(stub_name))]]

\* AnalysisRecord with the four lists drawn from all nodes of the graph
AnalysisRecord_ClassifiesEveryNode(hub_threshold, density, min_word_count, canon) ==
    [total_notes |-> Cardinality(Notes),
     total_links |-> NumberOfEdges,
     orphans |-> Sorted({n \in DOMAIN node_type : InDegree(n) = 0}),
     hubs |-> Sorted({n \in DOMAIN node_type : OutDegree(n) >= hub_threshold}),
     dead_ends |->
         Sorted({n \in DOMAIN node_type : OutDegree(n) = 0 /\ InDegree(n) > 0}),
     low_density_notes |->
         Sorted({n \in DOMAIN node_type :
                     IsLowDensity(n, density, min_word_count)}),
     untapped_potential |-> UntappedPotential(canon),
     stubs |-> Sorted(Stubs),
     stub_sources |-> [stub_name \in Stubs |-> Sorted(Predecessors(stub_name))]]

\* AnalysisRecord with every note without outbound edge as a dead end
AnalysisRecord_DeadEndsAnyInDegree(hub_threshold, density, min_word_count, canon) ==
    [total_notes |-> Cardinality(Notes),
     total_links |-> NumberOfEdges,
     orphans |-> Sorted({n \in Notes : InDegree(n) = 0}),
     hubs |-> Sorted({n \in Notes : OutDegree(n) >= hub_threshold}),
     dead_ends |-> Sorted({n \in Notes : OutDegree(n) = 0}),
     low_density_notes |->
         Sorted({n \in Notes : IsLowDensity(n, density, min_word_count)}),
     untapped_potential |-> UntappedPotential(canon),
     stubs |-> Sorted(Stubs),
     stub_sources |-> [stub_name \in Stubs |-> Sorted(Predecessors(stub_name))]]

\* AnalysisRecord with the successors of a stub as its sources
AnalysisRecord_StubSourcesOfSuccessors(hub_threshold, density, min_word_count, canon) ==
    [total_notes |-> Cardinality(Notes),
     total_links |-> NumberOfEdges,
     orphans |-> Sorted({n \in Notes : InDegree(n) = 0}),
     hubs |-> Sorted({n \in Notes : OutDegree(n) >= hub_threshold}),
     dead_ends |-> Sorted({n \in Notes : OutDegree(n) = 0 /\ InDegree(n) > 0}),
     low_density_notes |->
         Sorted({n \in Notes : IsLowDensity(n, density, min_word_count)}),
     untapped_potential |-> UntappedPotential(canon),
     stubs |-> Sorted(Stubs),
     stub_sources |-> [stub_name \in Stubs |-> Sorted(Successors(stub_name))]]

\* the record analyze_graph returns
AnalysisRecord(hub_threshold, density, min_word_count, canon) ==
    [total_notes |-> Cardinality(Notes),
     total_links |-> NumberOfEdges,
     orphans |-> Sorted({n \in Notes : InDegree(n) = 0}),
     hubs |-> Sorted({n \in Notes : OutDegree(n) >= hub_threshold}),
     dead_ends |-> Sorted({n \in Notes : OutDegree(n) = 0 /\ InDegree(n) > 0}),
     low_density_notes |->
         Sorted({n \in Notes : IsLowDensity(n, density, min_word_count)}),
     untapped_potential |-> UntappedPotential(canon),
     stubs |-> Sorted(Stubs),
     stub_sources |-> [stub_name \in Stubs |-> Sorted(Predecessors(stub_name))]]

\* analyze_graph; an exception it raises is caught nowhere and ends the run
\* with status 1
Analyze ==
    /\ pc = "analyze"
    /\ \E hub_threshold \in 1..MaxHubThreshold,
          density \in DensityThresholds,
          min_word_count \in 0..MaxMinWordCount,
          canon \in CanonicalMaps :
          IF ZeroDivision(min_word_count)
          THEN /\ pc' = "exit_1"
               /\ UNCHANGED analysisVars
          ELSE /\ params' = [hub_threshold |-> hub_threshold,
                             link_density_threshold |-> density,
                             min_word_count |-> min_word_count]
               /\ lower_to_canonical_map' = canon
               /\ analysis' =
                      <<AnalysisRecord(hub_threshold, density, min_word_count,
                                       canon)>>
               /\ pc' = "report"
    /\ UNCHANGED <<vault, discoveryVars, markdown_files, i, graphVars, indexVars>>
    /\ UNCHANGED engineVars

(***************************************************************************)
(* run_analysis_process: the report file.                                  *)
(***************************************************************************)
WriteReport ==
    /\ pc = "report"
    /\ pc' = "done"
    /\ UNCHANGED <<vault, discoveryVars, markdown_files, i, graphVars,
                   indexVars, analysisVars>>
    /\ UNCHANGED engineVars

\* opening or writing the file raises IOError: sys.exit(1)
WriteReportFails ==
    /\ pc = "report"
    /\ pc' = "exit_1"
    /\ UNCHANGED <<vault, discoveryVars, markdown_files, i, graphVars,
                   indexVars, analysisVars>>
    /\ UNCHANGED engineVars

Next ==
    \/ SkipScannedDir
    \/ ListDir
    \/ ListDirFails
    \/ ExitNoNotes
    \/ ReturnNotes
    \/ AddNote
    \/ IndexDone
    \/ ProcessNote
    \/ FetchFails
    \/ BuildDone
    \/ Analyze
    \/ WriteReport
    \/ WriteReportFails

Spec == Init /\ [][Next]_vars

(***************************************************************************)
(* The second loop of build_note_graph with its iterations in any order:   *)
(* the same loop body, applied to any note that was not handled yet.       *)
(***************************************************************************)
Handled == DOMAIN content \cup failed_notes

ProcessAnyNote ==
    /\ pc = "build"
    /\ \E note_path \in Range(markdown_files) \ Handled :
       \E pieces \in TextsUpTo(MaxPieces - PiecesUsed(DOMAIN content)) :
          LET g == AddLinks([type |-> node_type, edges |-> edges], note_path,
                            WikilinkFindall(Flatten(pieces)),
                            full_path_map, basename_map)
          IN  /\ content' = MapSet(content, note_path, pieces)
              /\ node_type' = g.type
              /\ edges' = g.edges
    /\ i' = i + 1
    /\ UNCHANGED <<pc, vault, discoveryVars, markdown_files, failed_notes,
                   indexVars, analysisVars>>
    /\ UNCHANGED engineVars

FetchAnyFails ==
    /\ pc = "build"
    /\ \E note_path \in Range(markdown_files) \ Handled :
          failed_notes' = failed_notes \cup {note_path}
    /\ i' = i + 1
    /\ UNCHANGED <<pc, vault, discoveryVars, markdown_files, node_type,
                   content, edges, indexVars, analysisVars>>
    /\ UNCHANGED engineVars

NextAnyOrder ==
    \/ SkipScannedDir
    \/ ListDir
    \/ ListDirFails
    \/ ExitNoNotes
    \/ ReturnNotes
    \/ AddNote
    \/ IndexDone
    \/ ProcessAnyNote
    \/ FetchAnyFails
    \/ BuildDone
    \/ Analyze
    \/ WriteReport
    \/ WriteReportFails

SpecAnyOrder == Init /\ [][NextAnyOrder]_vars

(***************************************************************************)
(* AnalysisEngine.analyze_vault of src/core/analysis/engine.py: the same   *)
(* traversal and index, a graph kept as two dicts of lists, and its own    *)
(* classification.  Of the record _analyze_graph returns, the counts and   *)
(* the orphan, hub, dead-end and stub lists are modelled.                  *)
(***************************************************************************)
InitEngine ==
    /\ pc = "_fetch_all_notes_recursively"
    /\ vault \in Vaults
    /\ dirs_to_scan = <<Root>>
    /\ scanned_dirs = {}
    /\ all_markdown_files = {}
    /\ failed_dirs = {}
    /\ markdown_files = <<>>
    /\ i = 0
    /\ node_type = EmptyMap
    /\ content = EmptyMap
    /\ edges = {}
    /\ full_path_map = EmptyMap
    /\ basename_map = EmptyMap
    /\ failed_notes = {}
    /\ params = EmptyMap
    /\ lower_to_canonical_map = EmptyMap
    /\ analysis = <<>>
    /\ note_links = EmptyMap
    /\ note_backlinks = EmptyMap

\* what no step of the engine writes
engineUnused == <<vault, node_type, edges, lower_to_canonical_map>>

EngineSkipScannedDir ==
    /\ pc = "_fetch_all_notes_recursively"
    /\ dirs_to_scan # <<>>
    /\ Head(dirs_to_scan) \in scanned_dirs
    /\ dirs_to_scan' = Tail(dirs_to_scan)
    /\ UNCHANGED <<pc, scanned_dirs, all_markdown_files, failed_dirs,
                   markdown_files, i, content, failed_notes>>
    /\ UNCHANGED <<engineUnused, indexVars, params, analysis, engineVars>>

EngineListDir ==
    /\ pc = "_fetch_all_notes_recursively"
    /\ dirs_to_scan # <<>>
    /\ Head(dirs_to_scan) \notin scanned_dirs
    /\ Head(dirs_to_scan) \in DOMAIN vault
    /\ LET current_dir == Head(dirs_to_scan)
           found == ScanItems(current_dir, vault[current_dir])
       IN  /\ scanned_dirs' = scanned_dirs \cup {current_dir}
           /\ dirs_to_scan' = Tail(dirs_to_scan) \o found.dirs
           /\ all_markdown_files' = all_markdown_files \cup found.files
    /\ UNCHANGED <<pc, failed_dirs, markdown_files, i, content, failed_notes>>
    /\ UNCHANGED <<engineUnused, indexVars, params, analysis, engineVars>>

\* the listing raises any exception: logged, the loop continues
EngineListDirFails ==
    /\ pc = "_fetch_all_notes_recursively"
    /\ dirs_to_scan # <<>>
    /\ Head(dirs_to_scan) \notin scanned_dirs
    /\ scanned_dirs' = scanned_dirs \cup {Head(dirs_to_scan)}
    /\ failed_dirs' = failed_dirs \cup {Head(dirs_to_scan)}
    /\ dirs_to_scan' = Tail(dirs_to_scan)
    /\ UNCHANGED <<pc, all_markdown_files, markdown_files, i, content,
                   failed_notes>>
    /\ UNCHANGED <<engineUnused, indexVars, params, analysis, engineVars>>

\* _empty_analysis_result(), without its statistics
EmptyAnalysisResult ==
    [total_notes |-> 0, total_links |-> 0, orphans |-> <<>>, hubs |-> <<>>,
     dead_ends |-> <<>>, stubs |-> <<>>]

\* no note was found: [] is returned and analyze_vault returns the empty
\* result
EngineReturnsEmptyResult ==
    /\ pc = "_fetch_all_notes_recursively"
    /\ dirs_to_scan = <<>>
    /\ all_markdown_files = {}
    /\ analysis' = <<EmptyAnalysisResult>>
    /\ pc' = "return"
    /\ UNCHANGED <<discoveryVars, markdown_files, i, content, failed_notes>>
    /\ UNCHANGED <<engineUnused, indexVars, params, engineVars>>

EngineReturnNotes ==
    /\ pc = "_fetch_all_notes_recursively"
    /\ dirs_to_scan = <<>>
    /\ all_markdown_files # {}
    /\ markdown_files' = Sorted(all_markdown_files)
    /\ pc' = "_build_note_graph"
    /\ UNCHANGED <<discoveryVars, i, content, failed_notes>>
    /\ UNCHANGED <<engineUnused, indexVars, params, analysis, engineVars>>

\* first loop of _build_note_graph, one note: its two index entries
EngineAddNote ==
    /\ pc = "_build_note_graph"
    /\ i < Len(markdown_files)
    /\ LET note_path == markdown_files[i + 1]
           link_path == SplitextRoot(note_path)
           basename == Title(note_path)
           paths == IF basename \in DOMAIN basename_map
                    THEN basename_map[basename] ELSE <<>>
       IN  /\ full_path_map' = MapSet(full_path_map, link_path, note_path)
           /\ basename_map' = MapSet(basename_map, basename, Append(paths, note_path))
    /\ i' = i + 1
    /\ UNCHANGED <<pc, discoveryVars, markdown_files, content, failed_notes>>
    /\ UNCHANGED <<engineUnused, params, analysis, engineVars>>

EngineIndexDone ==
    /\ pc = "_build_note_graph"
    /\ i = Len(markdown_files)
    /\ pc' = "_build_note_graph links"
    /\ i' = 0
    /\ UNCHANGED <<discoveryVars, markdown_files, content, failed_notes>>
    /\ UNCHANGED <<engineUnused, indexVars, params, analysis, engineVars>>

\* the loop over the links of note_path: a link that resolves appends
\* note_path to the backlinks of its target
RECURSIVE CountBacklinks(_, _, _, _, _)
CountBacklinks(backlinks, note_path, links, fpm, bm) ==
    IF links = <<>> THEN backlinks
    ELSE LET target_path == ResolveLink(Head(links), fpm, bm)
             sources == IF target_path \in DOMAIN backlinks
                        THEN backlinks[target_path] ELSE <<>>
         IN  CountBacklinks(
                 IF target_path # None
                 THEN MapSet(backlinks, target_path, Append(sources, note_path))
                 ELSE backlinks,
                 note_path, Tail(links), fpm, bm)

\* second loop, one note whose text is returned; an empty text is skipped
EngineProcessNote ==
    /\ pc = "_build_note_graph links"
    /\ i < Len(markdown_files)
    /\ \E pieces \in TextsUpTo(MaxPieces - PiecesUsed(DOMAIN content)) :
          LET note_path == markdown_files[i + 1]
              links == ExtractLinksFromContent(Flatten(pieces))
          IN  /\ content' = MapSet(content, note_path, pieces)
              /\ IF Flatten(pieces) = <<>>
                 THEN UNCHANGED engineVars
                 ELSE /\ note_links' = MapSet(note_links, note_path, links)
                      /\ note_backlinks' =
                             CountBacklinks(note_backlinks, note_path, links,
                                            full_path_map, basename_map)
    /\ i' = i + 1
    /\ UNCHANGED <<pc, discoveryVars, markdown_files, failed_notes>>
    /\ UNCHANGED <<engineUnused, indexVars, params, analysis>>

\* second loop, one note whose request fails: get_note_content returns None
EngineFetchFails ==
    /\ pc = "_build_note_graph links"
    /\ i < Len(markdown_files)
    /\ failed_notes' = failed_notes \cup {markdown_files[i + 1]}
    /\ i' = i + 1
    /\ UNCHANGED <<pc, discoveryVars, markdown_files, content>>
    /\ UNCHANGED <<engineUnused, indexVars, params, analysis, engineVars>>

EngineBuildDone ==
    /\ pc = "_build_note_graph links"
    /\ i = Len(markdown_files)
    /\ pc' = "_analyze_graph"
    /\ UNCHANGED <<discoveryVars, markdown_files, i, content, failed_notes>>
    /\ UNCHANGED <<engineUnused, indexVars, params, analysis, engineVars>>

\* the keys of note_links in insertion order
LinkedNotes == SelectSeq(markdown_files, LAMBDA n : n \in DOMAIN note_links)

\* sum(len(links) for links in note_links.values())
RECURSIVE LinkTotal(_)
LinkTotal(notes) ==
    IF notes = {} THEN 0
    ELSE LET n == CHOOSE n \in notes : TRUE
         IN  Len(note_links[n]) + LinkTotal(notes \ {n})

\* the pairs (note_path, len(links)) of the notes with c links
HubsOfSize(c) ==
    LET sel == SelectSeq(LinkedNotes, LAMBDA n : Len(note_links[n]) = c)
    IN  [k \in 1..Len(sel) |-> <<sel[k], c>>]

\* hubs.sort(key=lambda x: x[1], reverse=True), a stable sort
RECURSIVE HubsDownFrom(_, _)
HubsDownFrom(c, hub_threshold) ==
    IF c < hub_threshold THEN <<>>
    ELSE HubsOfSize(c) \o HubsDownFrom(c - 1, hub_threshold)

\* the largest number of links of a note
MostLinks ==
    LET counts == {Len(note_links[n]) : n \in DOMAIN note_links}
    IN  IF counts = {} THEN 0 ELSE CHOOSE c \in counts : \A d \in counts : d <= c

\* every link of every note
AllLinks == UNION {Range(note_links[n]) : n \in DOMAIN note_links}

\* the links that are not in set(notes)
EngineStubs == {link \in AllLinks : link \notin Range(markdown_files)}

EngineAnalysisRecord(hub_threshold) ==
    [total_notes |-> Len(markdown_files),
     total_links |-> LinkTotal(DOMAIN note_links),
     orphans |-> Sorted({n \in Range(markdown_files) :
                            n \notin DOMAIN note_backlinks}),
     hubs |-> HubsDownFrom(MostLinks, hub_threshold),
     dead_ends |-> Sorted({n \in Range(markdown_files) :
                              /\ n \in DOMAIN note_links
                              /\ note_links[n] = <<>>
                              /\ n \in DOMAIN note_backlinks}),
     stubs |-> Sorted(EngineStubs)]

EngineAnalyze ==
    /\ pc = "_analyze_graph"
    /\ \E hub_threshold \in 1..MaxHubThreshold :
          /\ params' = [hub_threshold |-> hub_threshold]
          /\ analysis' = <<EngineAnalysisRecord(hub_threshold)>>
    /\ pc' = "return"
    /\ UNCHANGED <<discoveryVars, markdown_files, i, content, failed_notes>>
    /\ UNCHANGED <<engineUnused, indexVars, engineVars>>

NextEngine ==
    \/ EngineSkipScannedDir
    \/ EngineListDir
    \/ EngineListDirFails
    \/ EngineReturnsEmptyResult
    \/ EngineReturnNotes
    \/ EngineAddNote
    \/ EngineIndexDone
    \/ EngineProcessNote
    \/ EngineFetchFails
    \/ EngineBuildDone
    \/ EngineAnalyze

SpecEngine == InitEngine /\ [][NextEngine]_vars

(***************************************************************************)
(* The run as a process that keeps executing: a statement that can be      *)
(* executed is executed eventually.                                        *)
(***************************************************************************)
SpecFair == Init /\ [][Next]_vars /\ WF_vars(Next)

(***************************************************************************)
(* Properties.                                                             *)
(***************************************************************************)
\* the notes whose text was fetched, and their link targets
Fetched == DOMAIN content
Tokens(d) == WikilinkFindall(Text(d))
TokenSet(d) == Range(Tokens(d))

\* the record analyze_graph returned
Result == analysis[1]

\* the titles recorded for d in the untapped-potential mapping
UntappedOf(d) ==
    IF d \in DOMAIN Result.untapped_potential
    THEN Range(Result.untapped_potential[d]) ELSE {}

\* the number of link targets extracted from the notes of a set
RECURSIVE TokenTotal(_)
TokenTotal(notes) ==
    IF notes = {} THEN 0
    ELSE LET n == CHOOSE n \in notes : TRUE
         IN  Len(Tokens(n)) + TokenTotal(notes \ {n})

\* C1: a link target that is a key of neither the exact-path map nor the
\* basename map gives an edge from its note to a node of type "stub" labelled
\* with the target as written, never to a node of type "note"
C1_UnresolvedTokenGoesToStub ==
    \A d \in Fetched : \A t \in TokenSet(d) :
        (t \notin DOMAIN full_path_map /\ t \notin DOMAIN basename_map)
            => /\ <<d, t>> \in edges
               /\ t \in DOMAIN node_type
               /\ node_type[t] = "stub"

\* C2: the reported total link count is the number of link targets extracted
\* from all fetched notes, duplicates and self-links counted each time
C2_TotalLinksCountsEveryToken ==
    analysis # <<>> => Result.total_links = TokenTotal(Fetched)

\* C3: a note is a hub exactly when the number of its link targets,
\* duplicates counted each time, is at least hub_threshold
C3_HubCountsEveryToken ==
    analysis # <<>> =>
        \A d \in Notes :
            d \in Range(Result.hubs)
                <=> (IF d \in Fetched THEN Len(Tokens(d)) ELSE 0)
                        >= params.hub_threshold

\* C4: a run whose root listing failed never ends as the clean empty-vault
\* exit and never as a successful run
C4_RootFailureIsHardFailure ==
    Root \in failed_dirs => pc \notin {"exit_0", "done"}

C6_MentionCompleteness ==
    analysis # <<>> =>
        \A d \in Notes : \A t \in AllTitles :
            (/\ ContentOf(d) # <<>>
             /\ Contains(Lower(ContentOf(d)), Lower(t))
             /\ t # Title(d)
             /\ ~ \E s \in Successors(d) \cap Notes : Title(s) = t)
                => t \in UntappedOf(d)

\* C7: the titles subtracted from the matched titles of a note d are exactly
\* the titles of the notes d links to and d's own title; an edge to a stub
\* removes nothing
C7_SubtractsOnlyDocumentTitles ==
    analysis # <<>> =>
        \A d \in Notes :
            ContentOf(d) # <<>> =>
                UntappedOf(d) =
                    FoundTitles(d, lower_to_canonical_map)
                        \ ({Title(s) : s \in Successors(d) \cap Notes}
                               \cup {Title(d)})

\* the link targets C8 describes, scanned from position at: for "[[" the text
\* up to the first following "|" or "]]", provided a "]]" closes the link
RECURSIVE ClosedTokensFrom(_, _)
ClosedTokensFrom(s, at) ==
    IF at + 1 > Len(s) THEN <<>>
    ELSE IF s[at] = "[" /\ s[at + 1] = "["
    THEN LET ends == {k \in (at + 2)..Len(s) :
                         \/ s[k] = "|"
                         \/ s[k] = "]" /\ k < Len(s) /\ s[k + 1] = "]"}
             closes == {k \in (at + 2)..(Len(s) - 1) :
                           s[k] = "]" /\ s[k + 1] = "]"}
         IN  IF ends = {} \/ closes = {} THEN ClosedTokensFrom(s, at + 1)
             ELSE LET e == CHOOSE k \in ends : \A h \in ends : k <= h
                      c == CHOOSE k \in closes : \A h \in closes : k <= h
                  IN  IF e = at + 2 THEN ClosedTokensFrom(s, c + 2)
                      ELSE <<SubSeq(s, at + 2, e - 1)>>
                               \o ClosedTokensFrom(s, c + 2)
    ELSE ClosedTokensFrom(s, at + 1)

\* C8: the link targets extracted from a text are, for each "[[", the text
\* up to the first following "|" or "]]"; an unclosed "[[" gives no target
C8_TokensAreClosedLinks ==
    \A d \in Fetched : Tokens(d) = ClosedTokensFrom(Text(d), 1)

\* C9: a link target that is a note path without its extension is linked to
\* that note, also when the basename map holds the target with another note
\* first; a note with only such targets has no other successor
C9_ExactPathFirst ==
    \A d \in Fetched :
        LET exact == {t \in TokenSet(d) : t \o MD \in Range(markdown_files)}
        IN  /\ \A t \in exact : <<d, t \o MD>> \in edges
            /\ (exact # {} /\ exact = TokenSet(d))
                   => Successors(d) = {t \o MD : t \in exact}

\* C9 witness: a fetched note holds the target X while both X.md and A/X.md
\* exist, A/X.md is the first entry of the basename X, and the edge goes to
\* X.md
C9_Witness ==
    \E d \in Fetched : \E t \in TokenSet(d) :
        /\ t \o MD \in Range(markdown_files)
        /\ t \in DOMAIN basename_map
        /\ basename_map[t][1] # t \o MD
        /\ Successors(d) = {t \o MD}

\* the notes whose basename without extension is t
Sharing(t) == {p \in Range(markdown_files) : Title(p) = t}
\* the first of a non-empty set of notes in sorted order
First(S) == CHOOSE p \in S : \A q \in S \ {p} : LexLess(p, q)

\* C10: a link target that is no exact path but the basename of several
\* notes is linked, from every note, to the first of them in sorted order; a
\* note with only such targets has no other successor
C10_AmbiguousBasenameFirstSorted ==
    \A d \in Fetched :
        LET byName == {t \in TokenSet(d) :
                          /\ t \o MD \notin Range(markdown_files)
                          /\ Sharing(t) # {}}
        IN  /\ \A t \in byName : <<d, First(Sharing(t))>> \in edges
            /\ (byName # {} /\ byName = TokenSet(d))
                   => Successors(d) = {First(Sharing(t)) : t \in byName}

\* C10 witness: two notes share the basename X, no note is X.md, and both
\* notes were fetched with the target X and link to the first one
C10_Witness ==
    \E t \in DOMAIN basename_map :
        /\ Len(basename_map[t]) >= 2
        /\ t \o MD \notin Range(markdown_files)
        /\ \A d \in Range(markdown_files) :
               /\ d \in Fetched
               /\ t \in TokenSet(d)
               /\ Successors(d) = {First(Sharing(t))}

\* C11: a step of the graph build never re-creates a node: every node keeps
\* its type, and the nodes a step adds while links are resolved are
\* placeholders for link targets of the note just fetched that resolve to no
\* note and were not nodes before; a label that is a node already is reused
C11_PlaceholderCreatedOnce ==
    [][LET added == DOMAIN node_type' \ DOMAIN node_type
       IN  /\ \A n \in DOMAIN node_type :
                  n \in DOMAIN node_type' /\ node_type'[n] = node_type[n]
           /\ pc = "build" =>
                  \A n \in added :
                      /\ node_type'[n] = "stub"
                      /\ n \notin DOMAIN full_path_map
                      /\ n \notin DOMAIN basename_map
                      /\ \E d \in DOMAIN content' \ DOMAIN content :
                             n \in Range(WikilinkFindall(Flatten(content'[d])))
      ]_vars

\* C11 witness: two fetched notes hold the same unresolved link target and
\* one placeholder stands for both
C11_Witness ==
    \E s \in Stubs :
        /\ Cardinality(Predecessors(s)) >= 2
        /\ \A d \in Predecessors(s) : d \in Fetched /\ s \in TokenSet(d)

\* every discovered note has its entry in both maps
IndexComplete ==
    \A p \in Range(markdown_files) :
        /\ \E k \in DOMAIN full_path_map : full_path_map[k] = p
        /\ \E k \in DOMAIN basename_map : p \in Range(basename_map[k])

\* C12: while the maps are filled no text is fetched and no link resolved;
\* once the first loop is over both maps hold every discovered note and no
\* later step changes them
C12_IndexCompleteBeforeRead ==
    [][/\ pc \in {"fetch_all_notes", "index"} =>
              /\ content = EmptyMap /\ content' = EmptyMap
              /\ edges = {} /\ edges' = {}
              /\ failed_notes' = {}
       /\ pc \notin {"fetch_all_notes", "index"} =>
              /\ IndexComplete
              /\ full_path_map' = full_path_map
              /\ basename_map' = basename_map
      ]_vars

\* C12 witness: with two notes indexed, links were resolved in the second loop
C12_Witness ==
    /\ pc = "build"
    /\ Len(markdown_files) >= 2
    /\ IndexComplete
    /\ edges # {}

\* the node a link target leads to, stated from the sorted note list alone:
\* the note of that path, else the first note of that basename, else the
\* target itself
ExpectedTarget(t) ==
    IF t \o MD \in Range(markdown_files) THEN t \o MD
    ELSE IF Sharing(t) # {} THEN First(Sharing(t))
    ELSE t

ExpectedEdges ==
    UNION {{<<d, ExpectedTarget(t)>> : t \in TokenSet(d)} : d \in Fetched}

\* C13: with the notes fetched and processed in any order, the node set and
\* the edge set are determined by the sorted note list and the fetched texts
\* alone
C13_GraphIndependentOfFetchOrder ==
    pc \notin {"fetch_all_notes", "index"} =>
        /\ edges = ExpectedEdges
        /\ DOMAIN node_type =
               Range(markdown_files) \cup {e[2] : e \in ExpectedEdges}
        /\ \A n \in DOMAIN node_type :
               node_type[n] = "note" <=> n \in Range(markdown_files)

\* C13 witness: the second note of the sorted list was processed before the
\* first one, and its link target, the basename of two notes, led to the
\* first of them
C13_Witness ==
    /\ pc = "build"
    /\ Len(markdown_files) >= 2
    /\ markdown_files[1] \notin Handled
    /\ markdown_files[2] \in Fetched
    /\ \E t \in TokenSet(markdown_files[2]) :
           /\ Cardinality(Sharing(t)) >= 2
           /\ t \o MD \notin Range(markdown_files)
           /\ <<markdown_files[2], First(Sharing(t))>> \in edges

\* the link target t resolves to the note d through one of the two maps
ResolvesTo(t, d) ==
    \/ t \o MD = d
    \/ /\ t \o MD \notin Range(markdown_files)
       /\ Sharing(t) # {}
       /\ First(Sharing(t)) = d

\* C14: a note is in the orphan list exactly when no fetched note, itself
\* included, holds a link target that resolves to it
C14_OrphanIffNoTokenResolves ==
    analysis # <<>> =>
        \A d \in Notes :
            d \in Range(Result.orphans)
                <=> ~ \E f \in Fetched : \E t \in TokenSet(f) : ResolvesTo(t, d)

\* C15: a note, fetched or not, is in the dead-end list exactly when no edge
\* leaves it and some edge enters it; no note is both an orphan and a dead
\* end
C15_DeadEndIffNoOutSomeIn ==
    analysis # <<>> =>
        /\ \A d \in Range(markdown_files) :
               d \in Range(Result.dead_ends)
                   <=> /\ ~ \E e \in edges : e[1] = d
                       /\ \E e \in edges : e[2] = d
        /\ Range(Result.orphans) \cap Range(Result.dead_ends) = {}

\* C15 witness: a note whose fetch failed is linked from another note and is
\* reported as a dead end, while the report also has an orphan
C15_Witness ==
    /\ analysis # <<>>
    /\ \E d \in failed_notes : d \in Range(Result.dead_ends)
    /\ Result.orphans # <<>>

\* C16: a note is in the low-density list exactly when its word count is at
\* least min_word_count and its outbound edges divided by its word count are
\* below the threshold (compared by cross-multiplication); a note with fewer
\* words than min_word_count is never listed
C16_LowDensityIffLongAndSparse ==
    analysis # <<>> =>
        \A d \in Range(markdown_files) :
            LET words == WordCount(ContentOf(d))
                out == Cardinality({e \in edges : e[1] = d})
            IN  d \in Range(Result.low_density_notes)
                    <=> /\ words >= params.min_word_count
                        /\ out * params.link_density_threshold[2]
                               < params.link_density_threshold[1] * words

\* C16 witness: with a positive min_word_count a note with an outbound edge
\* is listed
C16_Witness ==
    /\ analysis # <<>>
    /\ params.min_word_count >= 1
    /\ \E d \in Range(Result.low_density_notes) :
           /\ \E e \in edges : e[1] = d
           /\ WordCount(ContentOf(d)) >= params.min_word_count

\* seq is in ascending order without duplicates
StrictlySorted(seq) ==
    \A k \in 1..(Len(seq) - 1) : LexLess(seq[k], seq[k + 1])

\* C17: the stub list is the set of nodes of type "stub"; stub_sources has
\* exactly these keys and lists for each, sorted and without duplicates, the
\* notes that hold the label as a link target
C17_StubsAndTheirSources ==
    analysis # <<>> =>
        /\ Range(Result.stubs) = {n \in DOMAIN node_type : node_type[n] = "stub"}
        /\ StrictlySorted(Result.stubs)
        /\ DOMAIN Result.stub_sources = Range(Result.stubs)
        /\ \A s \in DOMAIN Result.stub_sources :
               /\ StrictlySorted(Result.stub_sources[s])
               /\ Range(Result.stub_sources[s])
                      = {d \in Fetched : s \in TokenSet(d)}

\* C17 witness: a reported stub has two source notes
C17_Witness ==
    /\ analysis # <<>>
    /\ \E s \in DOMAIN Result.stub_sources : Len(Result.stub_sources[s]) >= 2

\* C18: a note whose fetch failed stays a note node without content, with
\* word count 0 and no outbound edge, the loop has moved past it and the run
\* goes on; the outbound edges of every fetched note are those of its own
\* link targets
C18_FailedFetchIsSkipped ==
    /\ \A d \in failed_notes :
           /\ d \in DOMAIN node_type
           /\ node_type[d] = "note"
           /\ d \notin DOMAIN content
           /\ WordCount(ContentOf(d)) = 0
           /\ ~ \E e \in edges : e[1] = d
           /\ \E k \in 1..i : markdown_files[k] = d
           /\ pc \in {"build", "analyze", "report", "done", "exit_1"}
    /\ \A f \in Fetched :
           Successors(f) = {ExpectedTarget(t) : t \in TokenSet(f)}

\* C18 witness: the fetch of the first note failed, the second note was
\* fetched afterwards and got its edges, and the graph was returned
C18_Witness ==
    /\ pc = "analyze"
    /\ Len(markdown_files) >= 2
    /\ markdown_files[1] \in failed_notes
    /\ markdown_files[2] \in Fetched
    /\ Successors(markdown_files[2]) # {}

\* the directories a path lies in, the root included
DirChain(p) == {SubSeq(p, 1, k - 1) : k \in {h \in 1..Len(p) : p[h] = "/"}} \cup {Root}

\* the markdown entries of all directories of a vault, as paths from the root
TreeDocs(v) ==
    UNION {{JoinPath(d, v[d][k]) : k \in {h \in 1..Len(v[d]) : EndsWith(v[d][h], MD)}}
               : d \in DOMAIN v}

\* C19: after the traversal the notes found are exactly those none of whose
\* directories had a failed listing, and they are what discovery returns
C19_FailedListingLosesOnlyItsSubtree ==
    pc # "fetch_all_notes" =>
        LET kept == {p \in TreeDocs(vault) : DirChain(p) \cap failed_dirs = {}}
        IN  /\ all_markdown_files = kept
            /\ kept # {} => Range(markdown_files) = kept

\* C19 witness: the listing of a directory other than the root failed and a
\* note of another directory below the root was returned
C19_Witness ==
    /\ pc = "index"
    /\ Root \notin failed_dirs
    /\ failed_dirs # {}
    /\ Range(markdown_files) # TreeDocs(vault)
    /\ \E p \in Range(markdown_files) : DirChain(p) # {Root}

C21_EachDirectoryListedOnceAndTerminates ==
    /\ [][(pc = "fetch_all_notes" /\ dirs_to_scan # <<>>) =>
              LET current_dir == Head(dirs_to_scan)
              IN  /\ current_dir \in scanned_dirs =>
                         /\ dirs_to_scan' = Tail(dirs_to_scan)
                         /\ UNCHANGED <<scanned_dirs, all_markdown_files,
                                        failed_dirs>>
                  /\ current_dir \notin scanned_dirs =>
                         scanned_dirs' = scanned_dirs \cup {current_dir}
         ]_vars
    /\ <>(pc # "fetch_all_notes" /\ dirs_to_scan = <<>>)

\* C21 witness: the directory A was enqueued twice, its listing failed, and
\* the traversal is over
C21_Witness ==
    /\ pc # "fetch_all_notes"
    /\ vault = VaultNested
    /\ DirA \in failed_dirs
    /\ dirs_to_scan = <<>>

\* C22: while the note nodes are created they are the notes of the sorted
\* list handled so far; from the first link resolution on, at every step, the
\* nodes of type "note" are exactly the discovered notes, and the reported
\* total_notes is their number
C22_NoteNodesAreTheDiscoveredNotes ==
    /\ pc = "index" => Notes = {markdown_files[k] : k \in 1..i}
    /\ pc \in {"build", "analyze", "report", "done", "exit_1"} =>
           /\ Notes = Range(markdown_files)
           /\ Stubs \cap Range(markdown_files) = {}
    /\ analysis # <<>> =>
           Result.total_notes = Cardinality(Range(markdown_files))

\* C22 witness: of two discovered notes one was not fetched, the other has a
\* link target that is a note path as written and one that became a
\* placeholder, and the count of two notes was reported
C22_Witness ==
    /\ analysis # <<>>
    /\ Result.total_notes = 2
    /\ failed_notes # {}
    /\ Stubs # {}
    /\ \E d \in Fetched : TokenSet(d) \cap Range(markdown_files) # {}

\* the link target t differs from the path without extension or from the
\* basename of the note n in letter case only
CaseVariant(t, n) ==
    \/ Lower(t) = Lower(SplitextRoot(n)) /\ t # SplitextRoot(n)
    \/ Lower(t) = Lower(Title(n)) /\ t # Title(n)

\* the link target t is, as written, the path without extension or the
\* basename of a discovered note
ExactName(t) ==
    \E m \in Range(markdown_files) : t = SplitextRoot(m) \/ t = Title(m)

\* the note d has an edge to n only through a link target other than t
NotLinkedThrough(d, t, n) ==
    <<d, n>> \in edges =>
        \E u \in TokenSet(d) \ {t} : ResolvesTo(u, n) \/ u = n

C24_SelfLinkCountsBothWays ==
    \A d \in Fetched :
        (\E t \in TokenSet(d) : ResolvesTo(t, d)) =>
            /\ <<d, d>> \in edges
            /\ InDegree(d) = Cardinality(Predecessors(d) \ {d}) + 1
            /\ OutDegree(d) = Cardinality(Successors(d) \ {d}) + 1
            /\ analysis # <<>> =>
                   /\ d \notin Range(Result.orphans)
                   /\ d \notin Range(Result.dead_ends)
                   /\ params.hub_threshold = 1 => d \in Range(Result.hubs)
                   /\ Result.total_links = Cardinality(edges \ {<<d, d>>}) + 1

\* C24 witness: the only edge of a reported graph is the edge of a note to
\* itself, made from a link target that resolves to the note
C24_Witness ==
    /\ analysis # <<>>
    /\ \E d \in Fetched :
           /\ \E t \in TokenSet(d) : ResolvesTo(t, d)
           /\ edges = {<<d, d>>}
           /\ Result.total_links = 1

\* C25: the titles listed for a note in untapped_potential hold neither the
\* title of a note it has an edge to nor its own title, and a note with empty
\* or unfetched text is no key of untapped_potential
C25_UntappedOmitsLinkedAndOwnTitle ==
    analysis # <<>> =>
        \A d \in Range(markdown_files) :
            /\ \A s \in Range(markdown_files) :
                   <<d, s>> \in edges => Title(s) \notin UntappedOf(d)
            /\ Title(d) \notin UntappedOf(d)
            /\ (d \notin Fetched \/ Text(d) = <<>>)
                   => d \notin DOMAIN Result.untapped_potential

\* C25 witness: the text of a fetched note holds the title of another note
\* that it links to, and the title is not listed for it
C25_Witness ==
    /\ analysis # <<>>
    /\ \E d \in Fetched : \E s \in Range(markdown_files) :
           /\ <<d, s>> \in edges
           /\ Title(s) # Title(d)
           /\ Contains(Lower(Text(d)), Lower(Title(s)))
           /\ Title(s) \notin UntappedOf(d)

\* the sum of the numbers of edges that leave the nodes of a set
RECURSIVE OutDegreeSum(_)
OutDegreeSum(nodes) ==
    IF nodes = {} THEN 0
    ELSE LET n == CHOOSE n \in nodes : TRUE
         IN  Cardinality({e \in edges : e[1] = n}) + OutDegreeSum(nodes \ {n})

\* C26: no edge leaves a node of type "stub", and the reported total_links is
\* the sum over the discovered notes of the edges that leave each
C26_TotalLinksIsSumOfOutDegrees ==
    /\ \A s \in DOMAIN node_type :
           node_type[s] = "stub" => ~ \E e \in edges : e[1] = s
    /\ analysis # <<>> =>
           Result.total_links = OutDegreeSum(Range(markdown_files))

\* C26 witness: two notes with an outbound edge each, one of the edges to a
\* placeholder, and a total of two links reported
C26_Witness ==
    /\ analysis # <<>>
    /\ Result.total_links = 2
    /\ Cardinality({e[1] : e \in edges}) = 2
    /\ \E e \in edges : e[2] \in Stubs

\* C27: every node of type "stub" has an inbound edge and no outbound edge,
\* and is in none of the orphan, hub, dead-end and low-density lists
C27_PlaceholdersAreOnlyTargets ==
    \A s \in DOMAIN node_type :
        node_type[s] = "stub" =>
            /\ \E e \in edges : e[2] = s
            /\ ~ \E e \in edges : e[1] = s
            /\ analysis # <<>> =>
                   s \notin Range(Result.orphans) \cup Range(Result.hubs)
                        \cup Range(Result.dead_ends)
                        \cup Range(Result.low_density_notes)

\* C27 witness: a graph with a placeholder was analysed and a note, linked
\* from another note, is reported as a dead end
C27_Witness ==
    /\ analysis # <<>>
    /\ Stubs # {}
    /\ Result.dead_ends # <<>>
    /\ Result.hubs # <<>>

\* C28: the stubs AnalysisEngine reports are exactly the links of the notes
\* that are neither the path without extension nor the basename of a
\* discovered note
C28_EngineStubsAreUnresolvedLinks ==
    (pc = "return" /\ markdown_files # <<>>) =>
        Range(Result.stubs) =
            {link \in AllLinks :
                /\ link \o MD \notin Range(markdown_files)
                /\ Sharing(link) = {}}

\* C29: another run of analyze_graph over the same graph with the same
\* thresholds, whatever the iteration order of the title set makes of the
\* canonical map, returns the record that was returned
C29_AnalysisIsDeterministic ==
    analysis # <<>> =>
        \A canon \in CanonicalMaps :
            AnalysisRecord(params.hub_threshold, params.link_density_threshold,
                           params.min_word_count, canon) = Result

\* C30: analyze_graph always returns its record, for every min_word_count
\* from 0 on, and a note with word count 0 is not in the low-density list
C30_NoDivisionByZero ==
    /\ [][pc = "analyze" => pc' = "report" /\ analysis' # <<>>]_vars
    /\ [](analysis # <<>> =>
              \A d \in Range(markdown_files) :
                  WordCount(ContentOf(d)) = 0
                      => d \notin Range(Result.low_density_notes))

\* C30 witness: with min_word_count 0 a graph with a note of word count 0
\* and a note that is listed was analysed
C30_Witness ==
    /\ analysis # <<>>
    /\ params.min_word_count = 0
    /\ \E d \in Range(markdown_files) : WordCount(ContentOf(d)) = 0
    /\ Result.low_density_notes # <<>>

====
